---- MODULE Spec2Model ----
(***************************************************************************)
(* Firmware build orchestration of http_main.py: the POST /api/v1/asr      *)
(* trigger, the background poller get_firmware, the synchronous status     *)
(* query GET /api/v1/asr/status and the write of {FIRMWARE_PATH}/{id}.bin. *)
(*                                                                         *)
(* The remote build gateway is an external peer: what it answers to each   *)
(* call is an input of the step in which the call returns.  The two        *)
(* handlers are `async def` functions that block in `requests`, so the     *)
(* event loop runs one handler at a time; every background task runs       *)
(* get_firmware on its own worker thread, concurrently with the handlers   *)
(* and with the other tasks.                                               *)
(***************************************************************************)
EXTENDS Integers, Sequences, FiniteSets, TLC

VARIABLES handler, tasks, files, writes

vars == <<handler, tasks, files, writes>>

----------------------------------------------------------------------------
(* Bounds of the model *)

\* add_task calls over the whole history
MaxTasks == 2
\* status calls one poller may issue
MaxPolls == 2

----------------------------------------------------------------------------
(* Python values *)

PyNone == [type |-> "NoneType"]
PyInt(n) == [type |-> "int", val |-> n]
PyStr(s) == [type |-> "str", val |-> s]

\* f"{x}" of a str or of None
Format(x) == IF x = PyNone THEN "None" ELSE x.val

\* the gateway's job identifiers
JobIds == {"a", "b"}
\* the status codes the gateway may put in data.status
StatusVals == 0..4
\* response bodies of the download endpoint (byte strings)
Contents == {<<10>>, <<13, 10>>}

Succeeded == 2
Failed == 3

FIRMWARE_PATH == "/fw"

----------------------------------------------------------------------------
(* Gateway replies: a 200 response with its payload, a response with       *)
(* another status code, or a transport fault (requests raises).            *)

Ok(b) == [kind |-> "200", body |-> b]
Non200 == [kind |-> "non200", body |-> PyNone]
Fault == [kind |-> "fault", body |-> PyNone]
NoReply == [kind |-> "-", body |-> PyNone]

CreateReplies == {Ok(PyStr(j)) : j \in JobIds} \cup {Non200, Fault}
StatusReplies == {Ok(PyInt(s)) : s \in StatusVals} \cup {Non200, Fault}
DownloadReplies == {Ok(c) : c \in Contents} \cup {Non200, Fault}

\* req_gen_firmware: the id of a 200 response, None otherwise
req_gen_firmware(res) == IF res.kind # "200" THEN PyNone ELSE res.body

\* req_gen_status: the status of a 200 response, None otherwise
req_gen_status(res) == IF res.kind # "200" THEN PyNone ELSE res.body

\* a save path that does not depend on the id
SavePathShared(gen_id) ==
    IF gen_id = PyNone THEN FIRMWARE_PATH \o "/" \o "None" \o ".bin"
    ELSE FIRMWARE_PATH \o "/" \o "a" \o ".bin"

\* save_path of req_download_firmware
SavePath(gen_id) == FIRMWARE_PATH \o "/" \o Format(gen_id) \o ".bin"

\* what f.write(res.content) of a file opened "wb" stores
WriteBinary(content) == content

\* the same write through a text-mode file: "\n" is translated to "\r\n"
RECURSIVE WriteText(_)
WriteText(content) ==
    IF content = <<>> THEN <<>>
    ELSE (IF Head(content) = 10 THEN <<13, 10>> ELSE <<Head(content)>>)
         \o WriteText(Tail(content))

\* every value a gen_id can take, and the paths they are saved under
GenIds == {PyStr(j) : j \in JobIds} \cup {PyNone}
Paths == {SavePath(g) : g \in GenIds}
NoFile == <<>>

----------------------------------------------------------------------------
(* State *)

\* ResponseModel(data=...), whose status and message keep their defaults
ResponseModel(data) == [status |-> 200, message |-> "success", data |-> data]
\* the answer of the framework to a handler that raised
InternalServerError == [status |-> 500, message |-> "Internal Server Error", data |-> PyNone]
NoResponse == [status |-> 0, message |-> "-", data |-> PyNone]

\* the request the event loop is running: its handler, where the handler is,
\* the prj_name of a status query, the gateway's reply and the response built;
\* lateQuery records that the query arrived after a poller of its job had
\* observed Succeeded and then failed to download or to write
Idle == [op |-> "idle", pc |-> "-", prj |-> "-", reply |-> NoReply,
         response |-> NoResponse, lateQuery |-> FALSE]

\* the background task add_task(get_firmware, gen_id) creates
NewTask(gen_id, res) ==
    [pc |-> "scheduled", gen_id |-> gen_id, create |-> res.kind,
     responded |-> FALSE, delays |-> 0, statusCalls |-> 0,
     lastStatus |-> "-", nonTerminal |-> 0,
     terminalSeen |-> 0, terminal |-> PyNone, gen_result |-> FALSE,
     downloadCalls |-> 0, download |-> "-", persistCalls |-> 0,
     persists |-> 0, served |-> NoFile, outcome |-> "-"]

Init ==
    /\ handler = Idle
    /\ tasks = <<>>
    /\ files = [p \in Paths |-> NoFile]
    /\ writes = [p \in Paths |-> 0]

TaskIds == 1..Len(tasks)

----------------------------------------------------------------------------
(* POST /api/v1/asr *)

\* an event loop that also runs get_firmware: no request is taken while a
\* poller sleeps or waits for the gateway
LoopFreeOfPollers ==
    /\ handler.op = "idle"
    /\ \A p \in TaskIds : tasks[p].pc \notin {"sleep", "status", "download"}

\* the event loop takes a request when it runs no handler; get_firmware is
\* a plain function, which the framework runs on a worker thread
LoopFree == handler.op = "idle"

\* the handler starts and blocks in requests.post of req_gen_firmware
PostAsrBegin ==
    /\ LoopFree
    /\ Len(tasks) < MaxTasks
    /\ handler' = [Idle EXCEPT !.op = "post_asr", !.pc = "create"]
    /\ UNCHANGED <<tasks, files, writes>>

\* a trigger that adds the task twice
AddTaskTwice(ts, gen_id, res) ==
    Append(Append(ts, NewTask(gen_id, res)), NewTask(gen_id, res))

\* tasks after background_tasks.add_task(get_firmware, gen_id)
add_task(ts, gen_id, res) == Append(ts, NewTask(gen_id, res))

\* the create call returns; the handler adds the task and builds its response
PostAsrCreateReturn ==
    /\ handler.op = "post_asr" /\ handler.pc = "create"
    /\ \E res \in CreateReplies :
         IF res = Fault
         THEN /\ handler' = [handler EXCEPT !.pc = "raise", !.reply = res,
                                            !.response = InternalServerError]
              /\ UNCHANGED tasks
         ELSE LET gen_id == req_gen_firmware(res)
              IN /\ tasks' = add_task(tasks, gen_id, res)
                 /\ handler' = [handler EXCEPT
                                   !.pc = "return", !.reply = res,
                                   !.response = ResponseModel([id |-> gen_id])]
    /\ UNCHANGED <<files, writes>>

\* the response {id: gen_id} is sent; the task just added runs after it
PostAsrReturn ==
    /\ handler.op = "post_asr" /\ handler.pc = "return"
    /\ handler' = Idle
    /\ tasks' = [tasks EXCEPT ![Len(tasks)].responded = TRUE]
    /\ UNCHANGED <<files, writes>>

----------------------------------------------------------------------------
(* GET /api/v1/asr/status *)

\* a poller of job prj that observed Succeeded and then failed locally
LocallyFailed(p, prj) ==
    /\ Format(tasks[p].gen_id) = prj
    /\ tasks[p].terminal = PyInt(Succeeded)
    /\ tasks[p].pc = "done"
    /\ tasks[p].outcome \in {"download_failed", "io_error", "raised"}

\* the handler starts and blocks in requests.get of req_gen_status
GetAsrStatusBegin ==
    /\ LoopFree
    /\ \E g \in GenIds :
         handler' = [Idle EXCEPT
                       !.op = "get_asr_status", !.pc = "status",
                       !.prj = Format(g),
                       !.lateQuery = \E p \in TaskIds :
                                        LocallyFailed(p, Format(g))]
    /\ UNCHANGED <<tasks, files, writes>>

\* a query answered from the poller's last observation when it has one
StatusDataFromPoller(res) ==
    IF \E p \in TaskIds : /\ Format(tasks[p].gen_id) = handler.prj
                          /\ tasks[p].terminal # PyNone
    THEN (CHOOSE t \in {tasks[p].terminal : p \in
                          {q \in TaskIds : /\ Format(tasks[q].gen_id) = handler.prj
                                           /\ tasks[q].terminal # PyNone}} : TRUE)
    ELSE req_gen_status(res)

\* a query that reports "in progress" for a job whose poller saw the success
\* and then failed to download or to write
StatusDataLocalState(res) ==
    IF \E p \in TaskIds : /\ Format(tasks[p].gen_id) = handler.prj
                          /\ tasks[p].outcome \in {"download_failed", "io_error"}
    THEN PyInt(1)
    ELSE req_gen_status(res)

\* data of the ResponseModel the handler returns
StatusData(res) == req_gen_status(res)

GetAsrStatusGatewayReturn ==
    /\ handler.op = "get_asr_status" /\ handler.pc = "status"
    /\ \E res \in StatusReplies :
         IF res = Fault
         THEN handler' = [handler EXCEPT !.pc = "raise", !.reply = res,
                                         !.response = InternalServerError]
         ELSE handler' = [handler EXCEPT
                            !.pc = "return", !.reply = res,
                            !.response = ResponseModel(StatusData(res))]
    /\ UNCHANGED <<tasks, files, writes>>

GetAsrStatusReturn ==
    /\ handler.op = "get_asr_status" /\ handler.pc = "return"
    /\ handler' = Idle
    /\ UNCHANGED <<tasks, files, writes>>

\* an exception of requests left the handler: the 500 response is sent
HandlerRaise ==
    /\ handler.pc = "raise"
    /\ handler' = Idle
    /\ UNCHANGED <<tasks, files, writes>>

----------------------------------------------------------------------------
(* get_firmware, one run per background task *)

\* a task handed to a thread of its own as soon as it is added
MayStartAtOnce(t) == t.pc = "scheduled"

\* the framework runs a request's background tasks once its response is sent
MayStart(t) == t.pc = "scheduled" /\ t.responded

\* a loop whose body polls before it sleeps
EnteredPolling(t) == [t EXCEPT !.pc = "status", !.statusCalls = @ + 1]

\* the task on entering the loop: the body begins with time.sleep(5)
Entered(t) == [t EXCEPT !.pc = "sleep"]

PollerStart(p) ==
    /\ MayStart(tasks[p])
    /\ tasks' = [tasks EXCEPT ![p] = Entered(tasks[p])]
    /\ UNCHANGED <<handler, files, writes>>

\* a poller that issues its next status call without waiting for the answer
\* to the previous one
MayPollWhileOutstanding(t) == t.pc \in {"sleep", "status"}

\* the next status call is issued from the sleep at the top of the loop body
MayPoll(t) == t.pc = "sleep"

\* time.sleep(5) ends and the status call is issued
PollerWake(p) ==
    /\ MayPoll(tasks[p])
    /\ tasks[p].statusCalls < MaxPolls
    /\ tasks' = [tasks EXCEPT ![p].pc = "status",
                              ![p].delays = @ + 1,
                              ![p].statusCalls = @ + 1]
    /\ UNCHANGED <<handler, files, writes>>

\* a loop that logs the success but does not leave the loop
BranchNoBreak(gen_status) ==
    IF gen_status = PyInt(Failed) THEN "failed"
    ELSE IF gen_status = PyInt(Succeeded) THEN "succeeded_continue"
    ELSE "continue"

\* a loop that downloads on either terminal status
BranchDownloadAny(gen_status) ==
    IF gen_status = PyInt(Failed) THEN "succeeded"
    ELSE IF gen_status = PyInt(Succeeded) THEN "succeeded"
    ELSE "continue"

\* a loop that takes every status but Failed for the success
BranchDownloadEarly(gen_status) ==
    IF gen_status = PyInt(Failed) THEN "failed" ELSE "succeeded"

\* the branch of the loop body taken for gen_status
LoopBranch(gen_status) ==
    IF gen_status = PyInt(Failed) THEN "failed"
    ELSE IF gen_status = PyInt(Succeeded) THEN "succeeded"
    ELSE "continue"

\* the status call returns and the loop body classifies it; after the loop,
\* gen_result decides whether req_download_firmware issues its request
PollerStatusReturn(p) ==
    /\ tasks[p].pc = "status"
    /\ \E res \in StatusReplies :
         IF res = Fault
         THEN tasks' = [tasks EXCEPT ![p].pc = "done", ![p].outcome = "raised",
                                     ![p].lastStatus = res.kind]
         ELSE LET gen_status == req_gen_status(res)
                  b == LoopBranch(gen_status)
                  t == [tasks[p] EXCEPT !.lastStatus = res.kind]
                  seen == IF gen_status \in {PyInt(Succeeded), PyInt(Failed)}
                          THEN [t EXCEPT !.terminalSeen = @ + 1,
                                         !.terminal = IF @ = PyNone
                                                      THEN gen_status ELSE @]
                          ELSE [t EXCEPT !.nonTerminal = @ + 1]
              IN tasks' = [tasks EXCEPT ![p] =
                   CASE b = "failed" ->
                          [seen EXCEPT !.pc = "done", !.outcome = "failed"]
                     [] b = "succeeded" ->
                          [seen EXCEPT !.pc = "download", !.gen_result = TRUE,
                                       !.downloadCalls = @ + 1]
                     [] OTHER -> [seen EXCEPT !.pc = "sleep"]]
    /\ UNCHANGED <<handler, files, writes>>

\* a poller that calls req_download_firmware again when it has returned
AfterDownloadRetry == "download"
\* a download placed inside the loop, which then polls again
AfterDownloadLoop == "sleep"
\* where get_firmware goes once req_download_firmware has returned
AfterDownload == "done"

\* open(save_path, "ab") keeps what the file holds
OpenAppend(old) == old
\* open(save_path, "wb") truncates the file
OpenWrite(old) == <<>>

\* the bytes f.write(res.content) adds to the file
Written(content) == WriteBinary(content)

\* the download call returns; on 200 the body is written to save_path
PollerDownloadReturn(p) ==
    /\ tasks[p].pc = "download"
    /\ \E res \in DownloadReplies, writable \in BOOLEAN :
         LET t == tasks[p]
             save_path == SavePath(t.gen_id)
         IN CASE res = Fault ->
                   /\ tasks' = [tasks EXCEPT ![p].pc = "done",
                                             ![p].download = res.kind,
                                             ![p].outcome = "raised"]
                   /\ UNCHANGED <<files, writes>>
              [] res = Non200 ->
                   /\ tasks' = [tasks EXCEPT ![p].pc = AfterDownload,
                                             ![p].download = res.kind,
                                             ![p].outcome = "download_failed"]
                   /\ UNCHANGED <<files, writes>>
              [] OTHER ->
                   IF writable
                   THEN /\ files' = [files EXCEPT ![save_path] =
                                        OpenWrite(@) \o Written(res.body)]
                        /\ writes' = [writes EXCEPT ![save_path] = @ + 1]
                        /\ tasks' = [tasks EXCEPT ![p].pc = AfterDownload,
                                                  ![p].download = res.kind,
                                                  ![p].outcome = "saved",
                                                  ![p].served = res.body,
                                                  ![p].persistCalls = @ + 1,
                                                  ![p].persists = @ + 1]
                   ELSE /\ tasks' = [tasks EXCEPT ![p].pc = "done",
                                                  ![p].download = res.kind,
                                                  ![p].outcome = "io_error",
                                                  ![p].persistCalls = @ + 1]
                        /\ UNCHANGED <<files, writes>>
    /\ UNCHANGED handler

----------------------------------------------------------------------------

Next ==
    \/ PostAsrBegin
    \/ PostAsrCreateReturn
    \/ PostAsrReturn
    \/ GetAsrStatusBegin
    \/ GetAsrStatusGatewayReturn
    \/ GetAsrStatusReturn
    \/ HandlerRaise
    \/ \E p \in TaskIds : PollerStart(p)
    \/ \E p \in TaskIds : PollerWake(p)
    \/ \E p \in TaskIds : PollerStatusReturn(p)
    \/ \E p \in TaskIds : PollerDownloadReturn(p)

Spec == Init /\ [][Next]_vars

\* post_asr has no suspension point after the create call: once the call has
\* returned, the event loop runs the handler to its return statement
LiveSpec == Spec /\ WF_vars(PostAsrReturn)

----------------------------------------------------------------------------
(* Properties *)

\* the pollers whose gen_id is formatted to the same prj_name / file name
SameJob(p, q) == Format(tasks[p].gen_id) = Format(tasks[q].gen_id)

RECURSIVE SumPersists(_, _)
\* the writes of save_path done by the first n tasks
SumPersists(n, path) ==
    IF n = 0 THEN 0
    ELSE SumPersists(n - 1, path)
         + (IF SavePath(tasks[n].gen_id) = path THEN tasks[n].persists ELSE 0)

\* C1: a trigger whose create call returned a non-success response answers a
\* null id and schedules no poller: no task exists for a failed create, and no
\* poller runs with a null job id.
C1_FailedCreateSchedulesNoPoller ==
    /\ (handler.op = "post_asr" /\ handler.pc = "return"
        /\ handler.reply.kind # "200")
          => handler.response.data = [id |-> PyNone]
    /\ \A p \in TaskIds :
          tasks[p].create = "200" /\ tasks[p].gen_id # PyNone

\* C2 as stated: over the whole history, every JobId's file is written at most
\* once.
C2_AtMostOneWritePerJobId ==
    \A j \in JobIds : writes[SavePath(PyStr(j))] <= 1

\* C2 as amended: every poller writes its file at most once, and the writes
\* of a file are exactly the writes of the pollers of that job, so a file is
\* written at most once per poller scheduled for it.
C2_AtMostOneWritePerPoller ==
    /\ \A p \in TaskIds : tasks[p].persists <= 1
    /\ \A path \in Paths :
          /\ writes[path] = SumPersists(Len(tasks), path)
          /\ writes[path] <=
                Cardinality({p \in TaskIds : SavePath(tasks[p].gen_id) = path})

\* two pollers of the same JobId have each written that job's file
C2_Witness ==
    \E p, q \in TaskIds :
        /\ p # q
        /\ tasks[p].gen_id = tasks[q].gen_id
        /\ tasks[p].gen_id # PyNone
        /\ tasks[p].persists = 1 /\ tasks[q].persists = 1
        /\ writes[SavePath(tasks[p].gen_id)] = 2

\* C3 as stated: a poller that saw k-1 non-terminal statuses and then 2 has
\* issued exactly k status calls, one download call and one persist once it
\* has ended.
C3_SucceededOneDownloadOnePersist ==
    \A p \in TaskIds :
        (tasks[p].pc = "done" /\ tasks[p].terminal = PyInt(Succeeded)) =>
            /\ tasks[p].statusCalls = tasks[p].nonTerminal + 1
            /\ tasks[p].downloadCalls = 1
            /\ tasks[p].persistCalls = 1

\* C3 as amended: a poller that saw k-1 non-terminal statuses and then 2 has
\* issued exactly k status calls and exactly one download call; it persists
\* exactly once if the download call returned a 200 response and not at all
\* otherwise; it has ended once the download call has returned; it issues no
\* download before the status call that returned 2 and no status call after.
C3_SucceededOneDownload ==
    \A p \in TaskIds :
        /\ tasks[p].downloadCalls > 0 => tasks[p].terminal = PyInt(Succeeded)
        /\ tasks[p].terminal = PyInt(Succeeded) =>
              /\ tasks[p].pc \in {"download", "done"}
              /\ tasks[p].terminalSeen = 1
              /\ tasks[p].statusCalls = tasks[p].nonTerminal + 1
              /\ tasks[p].downloadCalls = 1
              /\ tasks[p].pc = "done" <=> tasks[p].download # "-"
              /\ tasks[p].persistCalls =
                    (IF tasks[p].download = "200" THEN 1 ELSE 0)
              /\ tasks[p].persists <= tasks[p].persistCalls

\* a poller has ended after a non-terminal status, then 2, one download and
\* one persist
C3_Witness ==
    \E p \in TaskIds :
        /\ tasks[p].pc = "done"
        /\ tasks[p].terminal = PyInt(Succeeded)
        /\ tasks[p].nonTerminal >= 1
        /\ tasks[p].statusCalls = tasks[p].nonTerminal + 1
        /\ tasks[p].downloadCalls = 1
        /\ tasks[p].persists = 1

\* C4: a poller that saw k-1 non-terminal statuses and then 3 has ended after
\* exactly k status calls, with no download call and no persist; it has
\* written nothing, so no file of its job exists unless another poller of the
\* same job wrote one.
C4_FailedNoDownloadNoArtifact ==
    \A p \in TaskIds :
        tasks[p].terminal = PyInt(Failed) =>
            /\ tasks[p].pc = "done"
            /\ tasks[p].terminalSeen = 1
            /\ tasks[p].statusCalls = tasks[p].nonTerminal + 1
            /\ tasks[p].downloadCalls = 0
            /\ tasks[p].persistCalls = 0
            /\ tasks[p].persists = 0
            /\ (\A q \in TaskIds : q # p => ~SameJob(p, q))
                  => files[SavePath(tasks[p].gen_id)] = NoFile

\* a poller has ended after a non-terminal status and then 3
C4_Witness ==
    \E p \in TaskIds :
        /\ tasks[p].pc = "done"
        /\ tasks[p].terminal = PyInt(Failed)
        /\ tasks[p].nonTerminal >= 1
        /\ tasks[p].gen_id # PyNone
        /\ files[SavePath(tasks[p].gen_id)] = NoFile

\* C5: a trigger whose create call succeeded answers without waiting for the
\* poll loop: its poller issues (let alone completes) no status call before
\* the response is sent, and the response is sent in every behaviour, whatever
\* the gateway answers to the polls afterwards.
C5_ResponseBeforePolling ==
    /\ [](\A p \in TaskIds :
             (tasks[p].create = "200" /\ tasks[p].statusCalls > 0)
                => tasks[p].responded)
    /\ \A n \in 1..MaxTasks :
          (Len(tasks) = n /\ tasks[n].create = "200")
             ~> (Len(tasks) >= n /\ tasks[n].responded)

\* the response of a successful trigger was sent and its poller has only seen
\* non-terminal statuses since
C5_Witness ==
    \E p \in TaskIds :
        /\ tasks[p].create = "200"
        /\ tasks[p].responded
        /\ tasks[p].nonTerminal >= 2
        /\ tasks[p].terminal = PyNone
        /\ tasks[p].pc = "sleep"

QueryAnswered == handler.op = "get_asr_status" /\ handler.pc = "return"

\* C6: the status query answers what the gateway answered to this very query
\* (null when the gateway's response is not a 200), whatever the state of the
\* pollers of that job, and no step of the query changes a poller or a file.
C6_QueryReflectsGatewayOnly ==
    /\ [](QueryAnswered =>
             handler.response =
                ResponseModel(IF handler.reply.kind = "200"
                              THEN handler.reply.body ELSE PyNone))
    /\ [][((handler.op = "get_asr_status" \/ handler'.op = "get_asr_status")
            /\ handler' # handler)
             => UNCHANGED <<tasks, files, writes>>]_vars

\* the query answers Running for a job whose poller has ended on Failed
C6_Witness ==
    /\ QueryAnswered
    /\ handler.response.data = PyInt(1)
    /\ \E p \in TaskIds :
          /\ Format(tasks[p].gen_id) = handler.prj
          /\ tasks[p].gen_id # PyNone
          /\ tasks[p].pc = "done"
          /\ tasks[p].terminal = PyInt(Failed)

\* C7 as stated, for a gateway that keeps answering Succeeded: once a poller
\* saw Succeeded and the download or the write failed, a status query of that
\* job made afterwards reports a non-terminal status.
C7_QueryInProgressAfterLocalFailure ==
    (/\ QueryAnswered
     /\ handler.lateQuery
     /\ handler.reply = Ok(PyInt(Succeeded)))
        => handler.response.data \notin {PyInt(Succeeded), PyInt(Failed)}

\* C7 as amended: after such a local failure a status query still reports
\* exactly what the gateway answers to it, so it reports Succeeded whenever
\* the gateway still answers Succeeded; the local failure is not visible.
C7_QuerySucceededAfterLocalFailure ==
    (QueryAnswered /\ handler.lateQuery) =>
        /\ handler.response.status = 200
        /\ handler.reply.kind = "200" => handler.response.data = handler.reply.body
        /\ handler.reply = Ok(PyInt(Succeeded))
              => handler.response.data = PyInt(Succeeded)

\* a query of a job whose download failed after Succeeded answers Succeeded
C7_Witness ==
    /\ QueryAnswered
    /\ handler.reply = Ok(PyInt(Succeeded))
    /\ handler.lateQuery
    /\ handler.response.data = PyInt(Succeeded)
    /\ \E p \in TaskIds :
          /\ LocallyFailed(p, handler.prj)
          /\ tasks[p].gen_id # PyNone
          /\ tasks[p].outcome = "download_failed"

\* C8: a status query whose gateway call failed (a non-200 response or a
\* transport fault) never gets a success response.
C8_GatewayFailureIsAnError ==
    (/\ handler.op = "get_asr_status"
     /\ handler.reply.kind \in {"non200", "fault"})
        => /\ handler.pc = "raise"
           /\ handler.response.status # 200
           /\ handler.response.message # "success"

\* C9: a persist writes the one path {FIRMWARE_PATH}/{gen_id}.bin, which
\* depends on the gen_id alone and differs for different ids; it replaces the
\* content of that file by the bytes persisted (nothing of an earlier persist
\* is kept) and leaves every other file as it was.
C9_PersistOverwritesOnePath ==
    /\ [](\A g, h \in GenIds : SavePath(g) = SavePath(h) => g = h)
    /\ [][\A p \in TaskIds :
            tasks'[p].persists = tasks[p].persists + 1 =>
               LET path == FIRMWARE_PATH \o "/" \o Format(tasks[p].gen_id)
                                         \o ".bin"
               IN /\ path = SavePath(tasks[p].gen_id)
                  /\ files' = [files EXCEPT ![path] = tasks'[p].served]
                  /\ writes' = [writes EXCEPT ![path] = @ + 1]]_vars

\* a file was written twice, by two pollers that were served different bytes
C9_Witness ==
    \E p, q \in TaskIds :
        /\ tasks[p].gen_id = tasks[q].gen_id
        /\ tasks[p].persists = 1 /\ tasks[q].persists = 1
        /\ tasks[p].served # tasks[q].served
        /\ writes[SavePath(tasks[p].gen_id)] = 2
        /\ files[SavePath(tasks[p].gen_id)] \in Contents

\* what reading {FIRMWARE_PATH}/{gen_id}.bin back in binary mode yields
ReadBack(fs, gen_id) == fs[SavePath(gen_id)]

\* C10: when a download succeeded and was persisted, reading the file back
\* yields the bytes of that download response.
C10_RoundTrip ==
    [][\A p \in TaskIds :
          (tasks[p].pc = "download" /\ tasks'[p].outcome = "saved"
           /\ tasks'[p].pc # "download")
             => ReadBack(files', tasks[p].gen_id) = tasks'[p].served]_vars

\* a poller has saved a body that holds a line feed and the file holds it
C10_Witness ==
    \E p \in TaskIds :
        /\ tasks[p].outcome = "saved"
        /\ tasks[p].served = <<10>>
        /\ ReadBack(files, tasks[p].gen_id) = <<10>>

\* the status calls poller p has issued and not yet got an answer or a fault to
Outstanding(p) ==
    tasks[p].statusCalls - tasks[p].nonTerminal - tasks[p].terminalSeen
      - (IF tasks[p].lastStatus = "fault" THEN 1 ELSE 0)

\* the status calls outstanding for prj_name prj: those of its pollers and
\* that of the status query the event loop is blocked in
OutstandingFor(prj) ==
    Cardinality({p \in TaskIds :
                    Format(tasks[p].gen_id) = prj /\ tasks[p].pc = "status"})
      + (IF handler.op = "get_asr_status" /\ handler.pc = "status"
            /\ handler.prj = prj THEN 1 ELSE 0)

\* C11 as stated: for every JobId, at most one status call of that job is
\* outstanding at any time, counting pollers and synchronous queries.
C11_OneOutstandingStatusCallPerJob ==
    \A j \in JobIds : OutstandingFor(j) <= 1

\* C11 as amended: every poller has at most one status call outstanding, and
\* has one exactly while it is blocked in req_gen_status; the calls of a
\* synchronous query and of another poller of the same JobId may overlap it.
C11_OneOutstandingStatusCallPerPoller ==
    \A p \in TaskIds :
        /\ Outstanding(p) \in {0, 1}
        /\ Outstanding(p) = 1 <=> tasks[p].pc = "status"

\* a poller and a status query of the same JobId are both waiting for the
\* gateway's answer
C11_Witness ==
    \E p \in TaskIds :
        /\ tasks[p].gen_id # PyNone
        /\ tasks[p].pc = "status"
        /\ Outstanding(p) = 1
        /\ tasks[p].statusCalls = 2
        /\ handler.op = "get_asr_status" /\ handler.pc = "status"
        /\ handler.prj = Format(tasks[p].gen_id)

\* C12: a download call is issued, and a file of a JobId exists, only after a
\* status call of a poller of that JobId has returned 2: a poller that has
\* issued a download call or written its file observed Succeeded before, and
\* every file that exists was written by such a poller.
C12_ArtifactOnlyAfterSucceeded ==
    /\ \A p \in TaskIds :
          (tasks[p].downloadCalls > 0 \/ tasks[p].persists > 0) =>
             /\ tasks[p].terminal = PyInt(Succeeded)
             /\ tasks[p].terminalSeen >= 1
             /\ tasks[p].statusCalls >= 1
    /\ \A g \in GenIds :
          files[SavePath(g)] # NoFile =>
             \E p \in TaskIds :
                 /\ tasks[p].gen_id = g
                 /\ tasks[p].terminal = PyInt(Succeeded)
                 /\ tasks[p].persists >= 1

\* the file of a JobId exists and another poller of that JobId ended on Failed
C12_Witness ==
    \E p, q \in TaskIds :
        /\ tasks[p].gen_id # PyNone
        /\ tasks[p].gen_id = tasks[q].gen_id
        /\ tasks[p].terminal = PyInt(Succeeded)
        /\ files[SavePath(tasks[p].gen_id)] # NoFile
        /\ tasks[q].terminal = PyInt(Failed)

\* C13: a status call of the poll loop that fails, by a non-200 response or
\* by a transport fault, does not end the poller: it is back in its delay or
\* in its next status call, as after an in-progress status.
C13_StatusFailureNeverEndsPoller ==
    \A p \in TaskIds :
        tasks[p].lastStatus \in {"non200", "fault"} =>
            /\ tasks[p].pc \in {"sleep", "status"}
            /\ tasks[p].outcome = "-"

\* C14: the loop takes a status for terminal exactly when it is 2 or 3 (0, 1,
\* 4 and None are in progress), and a poller has left its loop if and only if
\* one of its status calls returned 2 or 3; until then it is waiting or
\* polling.
C14_TerminatesIffTerminalStatus ==
    /\ \A v \in {PyInt(s) : s \in StatusVals} \cup {PyNone} :
          LoopBranch(v) # "continue" <=> v \in {PyInt(Succeeded), PyInt(Failed)}
    /\ \A p \in TaskIds :
          tasks[p].pc \in {"download", "done"} <=> tasks[p].terminalSeen >= 1

\* C15: a poller that observed Succeeded and whose download call returned a
\* non-success response has ended: it wrote no file, issued that one download
\* call only and no status call after the one that returned 2; and a poller
\* that has ended never takes another step.
C15_DownloadFailureIsFinal ==
    /\ [](\A p \in TaskIds :
             tasks[p].download = "non200" =>
                /\ tasks[p].pc = "done"
                /\ tasks[p].terminal = PyInt(Succeeded)
                /\ tasks[p].persistCalls = 0
                /\ tasks[p].persists = 0
                /\ tasks[p].downloadCalls = 1
                /\ tasks[p].statusCalls = tasks[p].nonTerminal + 1)
    /\ [][\A p \in TaskIds :
             tasks[p].pc = "done" => tasks'[p] = tasks[p]]_vars

\* a poller has ended on a failed download after two status calls and the
\* file of its job is absent
C15_Witness ==
    \E p \in TaskIds :
        /\ tasks[p].download = "non200"
        /\ tasks[p].pc = "done"
        /\ tasks[p].nonTerminal >= 1
        /\ tasks[p].gen_id # PyNone
        /\ files[SavePath(tasks[p].gen_id)] = NoFile
        /\ handler.op = "idle"

\* the pollers scheduled for gen_id g over the whole history
PollersOf(g) == {p \in TaskIds : tasks[p].gen_id = g}

\* C16 as stated: over the whole history at most one poller is scheduled for
\* every JobId.
C16_OnePollerPerJobId ==
    \A j \in JobIds : Cardinality(PollersOf(PyStr(j))) <= 1

\* C16 as amended: every trigger whose create call returned a response
\* schedules exactly one poller, for the id it answers, and nothing else ever
\* schedules one; a poller keeps its id and is never started again.  A JobId
\* has as many pollers as triggers were answered with it.
C16_OnePollerPerTrigger ==
    [][/\ Len(tasks') \in {Len(tasks), Len(tasks) + 1}
       /\ Len(tasks') = Len(tasks) + 1 <=>
             (/\ handler.op = "post_asr" /\ handler.pc = "create"
              /\ handler'.pc = "return")
       /\ Len(tasks') = Len(tasks) + 1 =>
             /\ handler'.response.data = [id |-> tasks'[Len(tasks')].gen_id]
             /\ tasks'[Len(tasks')].pc = "scheduled"
       /\ \A p \in TaskIds :
             /\ tasks'[p].gen_id = tasks[p].gen_id
             /\ tasks[p].pc # "scheduled" => tasks'[p].pc # "scheduled"
             /\ tasks[p].pc = "done" => tasks'[p].pc = "done"
      ]_vars

\* the gateway answered two triggers with the same JobId and both pollers
\* have started
C16_Witness ==
    \E p, q \in TaskIds :
        /\ p # q
        /\ tasks[p].gen_id = tasks[q].gen_id
        /\ tasks[p].gen_id # PyNone
        /\ tasks[p].pc # "scheduled"
        /\ tasks[q].pc # "scheduled"
        /\ Cardinality(PollersOf(tasks[p].gen_id)) = 2

\* the step is one of poller p: the event loop's request is untouched and the
\* record of p changes
StepOf(p) == handler' = handler /\ tasks'[p] # tasks[p]

\* C17: a step of the poller of one job changes no other poller and no file
\* but {FIRMWARE_PATH}/{its gen_id}.bin, and pollers of different ids never
\* write the same path.
C17_JobIsolation ==
    /\ [](\A p, q \in TaskIds :
             tasks[p].gen_id # tasks[q].gen_id
                => SavePath(tasks[p].gen_id) # SavePath(tasks[q].gen_id))
    /\ [][\A p \in TaskIds :
             StepOf(p) =>
                /\ \A q \in TaskIds : q # p => tasks'[q] = tasks[q]
                /\ Len(tasks') = Len(tasks)
                /\ \A path \in DOMAIN files :
                      path # FIRMWARE_PATH \o "/" \o Format(tasks[p].gen_id)
                                           \o ".bin"
                         => /\ files'[path] = files[path]
                            /\ writes'[path] = writes[path]]_vars

\* pollers of two different JobIds have both written their files, with
\* different bytes
C17_Witness ==
    \E p, q \in TaskIds :
        /\ tasks[p].gen_id # PyNone /\ tasks[q].gen_id # PyNone
        /\ tasks[p].gen_id # tasks[q].gen_id
        /\ tasks[p].persists = 1 /\ tasks[q].persists = 1
        /\ files[SavePath(tasks[p].gen_id)] = tasks[p].served
        /\ files[SavePath(tasks[q].gen_id)] = tasks[q].served
        /\ tasks[p].served # tasks[q].served

\* some poller is in its delay or blocked in a gateway call
SomePollerBlocked ==
    \E p \in TaskIds : tasks[p].pc \in {"sleep", "status", "download"}

\* C18: while a poller sleeps or is blocked in a gateway call, the event loop
\* still takes requests and runs their handlers to the end: when it runs no
\* handler a status query (and, below the bound on triggers, a trigger) can
\* begin, and a handler that has begun can take its next step.
C18_PollersDoNotBlockHandlers ==
    SomePollerBlocked =>
        /\ handler.op = "idle" =>
              /\ ENABLED GetAsrStatusBegin
              /\ Len(tasks) < MaxTasks => ENABLED PostAsrBegin
        /\ (handler.op = "post_asr" /\ handler.pc = "create")
              => ENABLED PostAsrCreateReturn
        /\ (handler.op = "post_asr" /\ handler.pc = "return")
              => ENABLED PostAsrReturn
        /\ (handler.op = "get_asr_status" /\ handler.pc = "status")
              => ENABLED GetAsrStatusGatewayReturn
        /\ (handler.op = "get_asr_status" /\ handler.pc = "return")
              => ENABLED GetAsrStatusReturn
        /\ handler.pc = "raise" => ENABLED HandlerRaise

\* the status query of one JobId has been answered while the poller of another
\* JobId is blocked in its status call
C18_Witness ==
    \E p \in TaskIds :
        /\ tasks[p].gen_id # PyNone
        /\ tasks[p].pc = "status"
        /\ handler.op = "get_asr_status" /\ handler.pc = "return"
        /\ handler.prj \in JobIds
        /\ handler.prj # Format(tasks[p].gen_id)
        /\ handler.response.status = 200
        /\ \A q \in TaskIds : q # p => tasks[q].pc = "sleep"

\* C19: every status call of a poller, the first included, comes right after
\* a completed delay: a poller has slept once per status call it issued, is
\* never in a status call without having slept, and has issued no download
\* call before its first delay has elapsed.
C19_DelayBeforeEveryStatusCall ==
    \A p \in TaskIds :
        /\ tasks[p].delays = tasks[p].statusCalls
        /\ tasks[p].pc = "status" => tasks[p].delays >= 1
        /\ tasks[p].downloadCalls > 0 => tasks[p].delays >= 1
        /\ tasks[p].pc = "scheduled" => tasks[p].statusCalls = 0

\* a poller whose very first status call returned 2 has saved the file after
\* exactly one delay
C19_Witness ==
    \E p \in TaskIds :
        /\ tasks[p].gen_id # PyNone
        /\ tasks[p].outcome = "saved"
        /\ tasks[p].nonTerminal = 0
        /\ tasks[p].statusCalls = 1
        /\ tasks[p].delays = 1

====
